---- MODULE Spec2Model ----
(***************************************************************************)
(* A model of scrape_sumo.py: the schedule resolver                        *)
(* (get_current_basho_and_day, second_sunday), the bout extractor          *)
(* (scrape_sumo_bouts, extract_wrestler_info), the leaderboard extractor   *)
(* (get_yusho_arasoi_data) and the orchestration in main.                   *)
(*                                                                         *)
(* Python values are modelled as follows.  A str is a sequence of          *)
(* one-character strings.  A date is a record [y, m, d].  An optional      *)
(* value is a record [isNone, v] whose v is meaningful when isNone is FALSE.*)
(* A dict is a sequence of <<key, value>> pairs in insertion order.        *)
(***************************************************************************)
EXTENDS Integers, Sequences, FiniteSets, TLC

VARIABLES
    \* get_current_basho_and_day
    now, r_pc, banzuke, basho_start, r_day,
    \* scrape_sumo_bouts, run on its own
    table, b_pc, bouts,
    \* get_yusho_arasoi_data, run on its own
    ltable, l_pc, leaders,
    \* main
    pc, env_BANZUKE, env_DAY, basho, day, requests, results_resp,
    leaders_resp, m_bouts, m_leaders, matches_json, leaders_json,
    exit_code, warned, auto_used

resolverVars == <<now, r_pc, banzuke, basho_start, r_day>>
boutVars == <<table, b_pc, bouts>>
leaderVars == <<ltable, l_pc, leaders>>
mainVars == <<pc, env_BANZUKE, env_DAY, basho, day, requests, results_resp,
              leaders_resp, m_bouts, m_leaders, matches_json, leaders_json,
              exit_code, warned, auto_used>>
vars == <<resolverVars, boutVars, leaderVars, mainVars>>

----------------------------------------------------------------------------
\* Bounds of the model.

\* The resolver is run on every date of the years 2023 .. 2023 + YearSpan.
YearSpan == 8

\* The most rows after the header in a results table.
MaxRows == 3

\* The longest text of a kimarite cell.
MaxKimLen == 2

\* The most rows after the header in a leaderboard table.
MaxLRows == 3

----------------------------------------------------------------------------
\* Python values.

\* None where an int is expected, and None where a str is expected.
NoneInt == [isNone |-> TRUE, v |-> 0]
NoneStr == [isNone |-> TRUE, v |-> <<>>]
Some(x) == [isNone |-> FALSE, v |-> x]

NoDate == [y |-> 0, m |-> 0, d |-> 0]

\* The characters the model's strings are made of, in code point order.
Alphabet ==
    <<" ", "+", "-", "0", "1", "2", "3", "4", "5", "6", "7", "8", "9", "=",
      "H", "O", "T", "a", "b", "c", "e", "h", "i", "k", "n", "o", "r", "s",
      "t", "u", "x", "y">>

Ord(c) == CHOOSE i \in 1..Len(Alphabet) : Alphabet[i] = c

Digits == <<"0", "1", "2", "3", "4", "5", "6", "7", "8", "9">>

IsDigit(c) == \E i \in 1..10 : Digits[i] = c

DigitValue(c) == (CHOOSE i \in 1..10 : Digits[i] = c) - 1

\* str(n) for n >= 0.
RECURSIVE IntToStr(_)
IntToStr(n) ==
    IF n < 10 THEN <<Digits[n + 1]>>
    ELSE Append(IntToStr(n \div 10), Digits[(n % 10) + 1])

\* f"{n:02d}" for n >= 0.
Pad2(n) == IF n < 10 THEN <<"0">> \o IntToStr(n) ELSE IntToStr(n)

----------------------------------------------------------------------------
\* datetime.date and calendar.

IsLeap(y) == (y % 4 = 0) /\ ((y % 100 # 0) \/ (y % 400 = 0))

DaysInMonth(y, m) ==
    IF m = 2 THEN (IF IsLeap(y) THEN 29 ELSE 28)
    ELSE IF m \in {4, 6, 9, 11} THEN 30 ELSE 31

RECURSIVE DaysBeforeMonth(_, _)
DaysBeforeMonth(y, m) ==
    IF m = 1 THEN 0 ELSE DaysBeforeMonth(y, m - 1) + DaysInMonth(y, m - 1)

DaysBeforeYear(y) ==
    365 * (y - 1) + ((y - 1) \div 4) - ((y - 1) \div 100) + ((y - 1) \div 400)

\* date.toordinal(): 0001-01-01 is day 1.
ToOrdinal(dt) == DaysBeforeYear(dt.y) + DaysBeforeMonth(dt.y, dt.m) + dt.d

\* date.weekday(): Monday is 0, Sunday is 6.
Weekday(dt) == (ToOrdinal(dt) + 6) % 7

\* (a - b).days
DaysBetween(a, b) == ToOrdinal(a) - ToOrdinal(b)

Date(y, m, d) == [y |-> y, m |-> m, d |-> d]

Years == 2023 .. (2023 + YearSpan)

Dates == {Date(y, m, d) : y \in Years, m \in 1..12, d \in 1..31} \
         {dt \in [y : Years, m : 1..12, d : 29..31] : dt.d > DaysInMonth(dt.y, dt.m)}

----------------------------------------------------------------------------
\* second_sunday and get_current_basho_and_day.

\* The dates of the month that fall on a Sunday, in calendar order.
Sundays(year, month) ==
    SelectSeq([i \in 1..DaysInMonth(year, month) |-> Date(year, month, i)],
              LAMBDA dt : Weekday(dt) = 6)

second_sunday_first(year, month) == Sundays(year, month)[1]

second_sunday(year, month) == Sundays(year, month)[2]

tourney_months == <<1, 3, 5, 7, 9, 11>>

Reversed(s) == [i \in 1..Len(s) |-> s[Len(s) + 1 - i]]

\* The for loop over reversed(tourney_months): the first month whose start
\* date is not after today, or nothing.
RECURSIVE FindStart(_, _, _)
FindStart(year, today, months) ==
    IF months = <<>> THEN [found |-> FALSE, start |-> NoDate, month |-> 0]
    ELSE LET start_date == second_sunday(year, Head(months))
         IN IF ToOrdinal(today) >= ToOrdinal(start_date)
            THEN [found |-> TRUE, start |-> start_date, month |-> Head(months)]
            ELSE FindStart(year, today, Tail(months))

TournamentDay_noPlusOne(today, start) ==
    LET d == DaysBetween(today, start)
    IN IF d < 1 \/ d > 15 THEN NoneInt ELSE Some(d)

\* day = (now - basho_start).days + 1, None outside the active days.
TournamentDay(today, start) ==
    LET d == DaysBetween(today, start) + 1
    IN IF d < 1 \/ d > 15 THEN NoneInt ELSE Some(d)

get_current_basho_and_day(today) ==
    LET hit == FindStart(today.y, today, Reversed(tourney_months))
        year == IF hit.found THEN today.y ELSE today.y - 1
        month == IF hit.found THEN hit.month ELSE 11
        start == IF hit.found THEN hit.start ELSE second_sunday(year, month)
    IN [banzuke |-> IntToStr(year) \o Pad2(month),
        day |-> TournamentDay(today, start),
        start |-> start, year |-> year, month |-> month]

----------------------------------------------------------------------------
\* str helpers.

RECURSIVE LStrip(_)
LStrip(s) == IF s # <<>> /\ Head(s) = " " THEN LStrip(Tail(s)) ELSE s

RECURSIVE RStrip(_)
RStrip(s) ==
    IF s # <<>> /\ s[Len(s)] = " " THEN RStrip(SubSeq(s, 1, Len(s) - 1)) ELSE s

\* s.strip()
Strip(s) == RStrip(LStrip(s))

\* c in s
Contains(s, c) == \E i \in 1..Len(s) : s[i] = c

\* s.split(c)[0]
RECURSIVE SplitFirst(_, _)
SplitFirst(s, c) ==
    IF s = <<>> \/ Head(s) = c THEN <<>>
    ELSE <<Head(s)>> \o SplitFirst(Tail(s), c)

\* s.split(c)[-1]
RECURSIVE SplitLast(_, _)
SplitLast(s, c) ==
    IF s = <<>> \/ s[Len(s)] = c THEN <<>>
    ELSE Append(SplitLast(SubSeq(s, 1, Len(s) - 1), c), s[Len(s)])

----------------------------------------------------------------------------
\* The results page: a table is a sequence of rows (the first is the header),
\* a row the sequence of its td cells, a cell its text, its first link (or
\* none) and the src of each img in it.

NoLink == [isNone |-> TRUE, v |-> [text |-> <<>>, href |-> <<>>]]

Cell(text, link, imgs) == [text |-> text, link |-> link, imgs |-> imgs]

Shiro == "img/hoshi_shiro.gif"
Kuro == "img/hoshi_kuro.gif"
Fusensho == "img/hoshi_fusensho.gif"

\* 'hoshi_shiro.gif' in src, 'hoshi_kuro.gif' in src
HasShiro(src) == src = Shiro
HasKuro(src) == src = Kuro

\* cell.find('img', src=lambda x: x and 'hoshi_shiro.gif' in x), as a truth value
FindWinImg(cell) == \E src \in cell.imgs : HasShiro(src)
FindLossImg(cell) == \E src \in cell.imgs : HasKuro(src)

extract_wrestler_info(cell) ==
    IF ~cell.link.isNone
    THEN LET href == cell.link.v.href
         IN [name |-> Strip(cell.link.v.text),
             id |-> IF Contains(href, "=") THEN Some(SplitLast(href, "="))
                    ELSE NoneStr]
    ELSE [name |-> Strip(cell.text), id |-> NoneStr]

\* if east_win and west_loss: 'east' / elif west_win and east_loss: 'west'
WinnerOf(east_result_cell, west_result_cell) ==
    IF FindWinImg(east_result_cell) /\ FindLossImg(west_result_cell) THEN "east"
    ELSE IF FindWinImg(west_result_cell) /\ FindLossImg(east_result_cell) THEN "west"
    ELSE "None"

\* if kimarite == '-' or not kimarite
Undecided_dashOnly(kimarite) == kimarite = <<"-">>

Undecided(kimarite) == kimarite = <<"-">> \/ kimarite = <<>>

BoutOf_keepWinner(cells) ==
    LET kimarite == Strip(cells[3].text)
    IN [east |-> extract_wrestler_info(cells[2]),
        west |-> extract_wrestler_info(cells[4]),
        kimarite |-> IF Undecided(kimarite) THEN NoneStr ELSE Some(kimarite),
        winner |-> WinnerOf(cells[1], cells[5])]

\* The body of the loop for a row with enough cells: the record appended.
BoutOf(cells) ==
    LET kimarite == Strip(cells[3].text)
        winner == WinnerOf(cells[1], cells[5])
    IN [east |-> extract_wrestler_info(cells[2]),
        west |-> extract_wrestler_info(cells[4]),
        kimarite |-> IF Undecided(kimarite) THEN NoneStr ELSE Some(kimarite),
        winner |-> IF Undecided(kimarite) THEN "None" ELSE winner]

RECURSIVE ExtractRows_break(_)
ExtractRows_break(rows) ==
    IF rows = <<>> THEN <<>>
    ELSE IF Len(Head(rows)) < 5 THEN <<>>
    ELSE <<BoutOf(Head(rows))>> \o ExtractRows_break(Tail(rows))

\* The loop over the rows: a row with fewer than 5 cells is skipped, any
\* other appends its record.
RECURSIVE ExtractRows(_)
ExtractRows(rows) ==
    IF rows = <<>> THEN <<>>
    ELSE IF Len(Head(rows)) < 5 THEN ExtractRows(Tail(rows))
    ELSE <<BoutOf(Head(rows))>> \o ExtractRows(Tail(rows))

\* find_all('tr')[1:]
DataRows(rows) == SubSeq(rows, 2, Len(rows))

\* The records scrape_sumo_bouts returns for the table it found.
ExtractBouts(rows) == ExtractRows(DataRows(rows))

----------------------------------------------------------------------------
\* int(s) of a str: surrounding whitespace and one sign are accepted, then
\* one or more digits; anything else raises ValueError (ok = FALSE).

RECURSIVE DigitsValue(_)
DigitsValue(s) ==
    IF s = <<>> THEN 0
    ELSE 10 * DigitsValue(SubSeq(s, 1, Len(s) - 1)) + DigitValue(s[Len(s)])

ParseInt(s) ==
    LET t == Strip(s)
        signed == t # <<>> /\ Head(t) \in {"+", "-"}
        body == IF signed THEN Tail(t) ELSE t
    IN IF body # <<>> /\ \A i \in 1..Len(body) : IsDigit(body[i])
       THEN [ok |-> TRUE,
             v |-> IF signed /\ Head(t) = "-" THEN 0 - DigitsValue(body)
                   ELSE DigitsValue(body)]
       ELSE [ok |-> FALSE, v |-> 0]

\* Comparison of str values: by code point, a proper prefix first.
RECURSIVE StrLE(_, _)
StrLE(a, b) ==
    IF a = <<>> THEN TRUE
    ELSE IF b = <<>> THEN FALSE
    ELSE IF Ord(Head(a)) < Ord(Head(b)) THEN TRUE
    ELSE IF Ord(Head(a)) > Ord(Head(b)) THEN FALSE
    ELSE StrLE(Tail(a), Tail(b))

\* sorted(list of str): a stable insertion sort.
RECURSIVE InsertAsc(_, _)
InsertAsc(sorted, x) ==
    IF sorted = <<>> THEN <<x>>
    ELSE IF StrLE(Head(sorted), x) THEN <<Head(sorted)>> \o InsertAsc(Tail(sorted), x)
    ELSE <<x>> \o sorted

RECURSIVE Sorted(_)
Sorted(list) ==
    IF list = <<>> THEN <<>>
    ELSE InsertAsc(Sorted(SubSeq(list, 1, Len(list) - 1)), list[Len(list)])

\* sorted(keys, key=int, reverse=True): stable, so keys of equal value keep
\* their order.
RECURSIVE InsertDesc(_, _)
InsertDesc(sorted, x) ==
    IF sorted = <<>> THEN <<x>>
    ELSE IF ParseInt(Head(sorted)).v >= ParseInt(x).v
         THEN <<Head(sorted)>> \o InsertDesc(Tail(sorted), x)
    ELSE <<x>> \o sorted

RECURSIVE SortedByIntDesc(_)
SortedByIntDesc(keys) ==
    IF keys = <<>> THEN <<>>
    ELSE InsertDesc(SortedByIntDesc(SubSeq(keys, 1, Len(keys) - 1)), keys[Len(keys)])

----------------------------------------------------------------------------
\* get_yusho_arasoi_data.  A leaderboard row is the sequence of the texts
\* of its td cells.

DictHas(d, k) == \E i \in 1..Len(d) : d[i][1] = k

DictGet(d, k) == d[CHOOSE i \in 1..Len(d) : d[i][1] = k][2]

DictKeys(d) == [i \in 1..Len(d) |-> d[i][1]]

\* d.setdefault(k, []).append(e)
SetDefaultAppend(d, k, e) ==
    IF DictHas(d, k)
    THEN [i \in 1..Len(d) |->
             IF d[i][1] = k THEN <<k, Append(d[i][2], e)>> ELSE d[i]]
    ELSE Append(d, <<k, <<e>>>>)

\* The loop over the rows, from the dict built so far.
RECURSIVE GroupRows(_, _)
GroupRows(records, rows) ==
    IF rows = <<>> THEN records
    ELSE LET cells == Head(rows)
         IN IF Len(cells) < 3 THEN GroupRows(records, Tail(rows))
            ELSE LET name == Strip(cells[2])
                     record == Strip(cells[3])
                     wins == SplitFirst(record, "-")
                 IN IF ~ParseInt(wins).ok THEN GroupRows(records, Tail(rows))
                    ELSE GroupRows(
                             SetDefaultAppend(records, wins, name \o <<" ">> \o record),
                             Tail(rows))

\* The dict get_yusho_arasoi_data returns for the table it found.
ExtractLeaders(rows) ==
    LET records == GroupRows(<<>>, DataRows(rows))
        keys == SortedByIntDesc(DictKeys(records))
    IN [i \in 1..Len(keys) |-> <<keys[i], Sorted(DictGet(records, keys[i]))>>]

----------------------------------------------------------------------------
\* The inputs the specifications draw from.

Hoshoryu == <<"H", "o", "s", "h", "o", "r", "y", "u">>
Takakeisho == <<"T", "a", "k", "a", "k", "e", "i", "s", "h", "o">>
Onosato == <<"O", "n", "o", "s", "a", "t", "o">>

Yorikiri == <<"y", "o", "r", "i", "k", "i", "r", "i">>

RECURSIVE StringsUpTo(_, _)
StringsUpTo(chars, n) ==
    IF n = 0 THEN {<<>>}
    ELSE LET shorter == StringsUpTo(chars, n - 1)
         IN shorter \cup {Append(t, c) : t \in shorter, c \in chars}

RECURSIVE SeqsUpTo(_, _)
SeqsUpTo(S, n) ==
    IF n = 0 THEN {<<>>}
    ELSE LET shorter == SeqsUpTo(S, n - 1)
         IN shorter \cup {Append(t, x) : t \in shorter, x \in S}

ResultCell(imgs) == Cell(<<>>, NoLink, imgs)

\* A wrestler cell with a profile link, "Rikishi.aspx?r=<id>" cut to "r=<id>".
LinkedCell(name, id) ==
    Cell(name, Some([text |-> name, href |-> <<"r", "=">> \o id]), {})

TextCell(text) == Cell(text, NoLink, {})

HeaderRow == <<TextCell(<<>>)>>

\* A row of a decided bout between `east` and a fixed west wrestler, cut or
\* padded to n cells.
RowOfCells(n, east) ==
    LET full == <<ResultCell({Shiro}), LinkedCell(east, <<"1">>), TextCell(Yorikiri),
                  TextCell(<<" ", "b", " ">>), ResultCell({Kuro}), TextCell(<<>>)>>
    IN SubSeq(full, 1, n)

\* Rows for the order of the records: too few cells (0 or 4) or enough (5 or
\* 6), told apart by the east wrestler.
OrderRows ==
    {RowOfCells(n, <<"a">>) : n \in {0, 4}}
    \cup {RowOfCells(n, e) : n \in {5, 6}, e \in {<<"a">>, <<"b">>, <<"c">>}}

\* Rows for the winner: every set of marker images in either result cell and
\* every short kimarite text.
MarkerRows ==
    {<<ResultCell(ei), TextCell(<<"a">>), TextCell(k), TextCell(<<"b">>), ResultCell(wi)>> :
        ei \in SUBSET {Shiro, Kuro, Fusensho},
        wi \in SUBSET {Shiro, Kuro, Fusensho},
        k \in StringsUpTo({" ", "-", "y"}, MaxKimLen)}

Tables ==
    {<<HeaderRow>> \o t : t \in SeqsUpTo(OrderRows, MaxRows)}
    \cup {<<HeaderRow, r>> : r \in MarkerRows}
    \cup {<<>>}

LeaderRecords ==
    {<<"1", "0", "-", "2">>, <<"1", "1", "-", "1">>, <<"9", "-", "3">>,
     <<"0", "1", "0", "-", "2">>, <<"x", "-", "1">>, <<>>}

LeaderRows ==
    {<<<<"1">>, n, r>> : n \in {Hoshoryu, Takakeisho, Onosato}, r \in LeaderRecords}
    \cup {<<<<"1">>, Onosato>>}

LeaderHeaderRow == <<<<>>, <<>>, <<>>>>

LeaderTables == {<<LeaderHeaderRow>> \o t : t \in SeqsUpTo(LeaderRows, MaxLRows)}

----------------------------------------------------------------------------
\* The three extractors run on their own, each on every input of its set.

IdleResolver ==
    /\ now = NoDate /\ r_pc = "idle" /\ banzuke = <<>>
    /\ basho_start = NoDate /\ r_day = NoneInt

IdleBouts == table = <<>> /\ b_pc = "idle" /\ bouts = <<>>

IdleLeaders == ltable = <<>> /\ l_pc = "idle" /\ leaders = <<>>

DayNone == [kind |-> "none", s |-> <<>>, n |-> 0]
DayStr(s) == [kind |-> "str", s |-> s, n |-> 0]
DayInt(n) == [kind |-> "int", s |-> <<>>, n |-> n]

NoFile == [written |-> FALSE, bouts |-> <<>>, leaders |-> <<>>]

NoResponse == [status |-> 0, hasTable |-> FALSE, hasHeader |-> FALSE, rows |-> <<>>]

IdleMain ==
    /\ pc = "idle" /\ env_BANZUKE = NoneStr /\ env_DAY = NoneStr
    /\ basho = NoneStr /\ day = DayNone /\ requests = <<>>
    /\ results_resp = NoResponse /\ leaders_resp = NoResponse
    /\ m_bouts = <<>> /\ m_leaders = <<>>
    /\ matches_json = NoFile /\ leaders_json = NoFile
    /\ exit_code = -1 /\ warned = FALSE /\ auto_used = FALSE

InitResolve ==
    /\ now \in Dates /\ r_pc = "start" /\ banzuke = <<>>
    /\ basho_start = NoDate /\ r_day = NoneInt
    /\ IdleBouts /\ IdleLeaders /\ IdleMain

\* One call of get_current_basho_and_day with today's date in `now`.
Resolve ==
    /\ r_pc = "start"
    /\ LET r == get_current_basho_and_day(now)
       IN /\ banzuke' = r.banzuke
          /\ basho_start' = r.start
          /\ r_day' = r.day
    /\ r_pc' = "done"
    /\ UNCHANGED <<now, boutVars, leaderVars, mainVars>>

NextResolve == Resolve

SpecResolve == InitResolve /\ [][NextResolve]_vars

InitBouts ==
    /\ table \in Tables /\ b_pc = "start" /\ bouts = <<>>
    /\ IdleResolver /\ IdleLeaders /\ IdleMain

\* One call of scrape_sumo_bouts on a page whose results table is `table`.
ScrapeBouts ==
    /\ b_pc = "start"
    /\ bouts' = ExtractBouts(table)
    /\ b_pc' = "done"
    /\ UNCHANGED <<table, resolverVars, leaderVars, mainVars>>

NextBouts == ScrapeBouts

SpecBouts == InitBouts /\ [][NextBouts]_vars

InitLeaders ==
    /\ ltable \in LeaderTables /\ l_pc = "start" /\ leaders = <<>>
    /\ IdleResolver /\ IdleBouts /\ IdleMain

\* One call of get_yusho_arasoi_data on a page whose table is `ltable`.
ScrapeLeaders ==
    /\ l_pc = "start"
    /\ leaders' = ExtractLeaders(ltable)
    /\ l_pc' = "done"
    /\ UNCHANGED <<ltable, resolverVars, boutVars, mainVars>>

NextLeaders == ScrapeLeaders

SpecLeaders == InitLeaders /\ [][NextLeaders]_vars

----------------------------------------------------------------------------
\* main: one run of the script, a step per statement group.

\* The truth value of an optional str: None and '' are false.
Truthy(opt) == ~opt.isNone /\ opt.v # <<>>

\* The truth value of `day`: None, '' and 0 are false.
DayTruthy(d) ==
    \/ d.kind = "str" /\ d.s # <<>>
    \/ d.kind = "int" /\ d.n # 0

EnvBanzukes == {NoneStr, Some(<<>>), Some(<<"2", "0", "2", "5", "0", "1">>)}

EnvDays ==
    {NoneStr, Some(<<>>), Some(<<"5">>), Some(<<"x">>), Some(<<"0">>),
     Some(<<"1", "6">>)}

\* The dates a run may find itself on: September and October 2025.
MainDates == {dt \in Dates : dt.y = 2025 /\ dt.m \in {9, 10}}

\* What the site may answer to the results request: a failure status, or a
\* page with or without a results table.
ResultsResponses ==
    {[status |-> st, hasTable |-> FALSE, hasHeader |-> FALSE, rows |-> <<>>] :
        st \in {200, 404, 500}}
    \cup {[status |-> 200, hasTable |-> TRUE, hasHeader |-> FALSE, rows |-> t] :
            t \in {<<HeaderRow>>,
                    <<HeaderRow, RowOfCells(4, <<"a">>), RowOfCells(5, <<"b">>)>>}}

\* What the site may answer to the leaderboard request: a failure status, or
\* a page with or without the heading and with or without a table after it.
LeadersResponses ==
    {[status |-> st, hasTable |-> FALSE, hasHeader |-> h, rows |-> <<>>] :
        st \in {200, 500}, h \in BOOLEAN}
    \cup {[status |-> 200, hasTable |-> TRUE, hasHeader |-> h, rows |-> t] :
            h \in BOOLEAN,
            t \in {<<LeaderHeaderRow>>,
                    <<LeaderHeaderRow, <<<<"1">>, Onosato, <<"1", "1", "-", "1">>>>>>}}

NoParams == [empty |-> TRUE, b |-> <<>>, d |-> 0]

\* params = {"b": basho, "d": day} if basho and day, else {}
ParamsOf_bashoOnly(b, d) ==
    IF Truthy(b)
    THEN [empty |-> FALSE, b |-> b.v, d |-> d.n]
    ELSE NoParams

ParamsOf(b, d) ==
    IF Truthy(b) /\ DayTruthy(d)
    THEN [empty |-> FALSE, b |-> b.v, d |-> d.n]
    ELSE NoParams

\* response.raise_for_status(): a 4xx or 5xx status raises.
RaisesForStatus(resp) == resp.status >= 400

\* scrape_sumo_bouts raises: the status, or no table of class tk_table.
BoutsRaises_emptyOnMissing(resp) == RaisesForStatus(resp)

BoutsRaises(resp) == RaisesForStatus(resp) \/ ~resp.hasTable

\* get_yusho_arasoi_data raises: the status, no heading, or no table after it.
LeadersRaises(resp) == RaisesForStatus(resp) \/ ~resp.hasHeader \/ ~resp.hasTable

InitMain ==
    /\ pc = "start"
    /\ env_BANZUKE \in EnvBanzukes /\ env_DAY \in EnvDays
    /\ basho = NoneStr /\ day = DayNone /\ requests = <<>>
    /\ results_resp = NoResponse /\ leaders_resp = NoResponse
    /\ m_bouts = <<>> /\ m_leaders = <<>>
    /\ matches_json = NoFile /\ leaders_json = NoFile
    /\ exit_code = -1 /\ warned = FALSE /\ auto_used = FALSE
    /\ now = NoDate /\ r_pc = "idle" /\ banzuke = <<>>
    /\ basho_start = NoDate /\ r_day = NoneInt
    /\ IdleBouts /\ IdleLeaders

\* basho, day = the environment's BANZUKE and DAY, both given.
MainReadEnv ==
    /\ pc = "start"
    /\ Truthy(env_BANZUKE) /\ Truthy(env_DAY)
    /\ basho' = env_BANZUKE
    /\ day' = DayStr(env_DAY.v)
    /\ pc' = "convert"
    /\ UNCHANGED <<env_BANZUKE, env_DAY, requests, results_resp, leaders_resp,
                   m_bouts, m_leaders, matches_json, leaders_json, exit_code,
                   warned, auto_used, resolverVars, boutVars, leaderVars>>

\* if not basho or not day: both are replaced by get_current_basho_and_day()
\* on today's date in Japan.
MainUseAutomatic ==
    /\ pc = "start"
    /\ ~Truthy(env_BANZUKE) \/ ~Truthy(env_DAY)
    /\ \E today \in MainDates :
          LET r == get_current_basho_and_day(today)
          IN /\ now' = today
             /\ banzuke' = r.banzuke
             /\ basho_start' = r.start
             /\ r_day' = r.day
             /\ basho' = Some(r.banzuke)
             /\ day' = IF r.day.isNone THEN DayNone ELSE DayInt(r.day.v)
    /\ auto_used' = TRUE
    /\ pc' = "convert"
    /\ UNCHANGED <<r_pc, env_BANZUKE, env_DAY, requests, results_resp, leaders_resp,
                   m_bouts, m_leaders, matches_json, leaders_json, exit_code,
                   warned, boutVars, leaderVars>>

MainConvertDay_exitOnBadDay ==
    /\ pc = "convert"
    /\ IF DayTruthy(day) /\ day.kind = "str"
       THEN LET parsed == ParseInt(day.s)
            IN /\ day' = IF parsed.ok THEN DayInt(parsed.v) ELSE DayNone
               /\ warned' = ~parsed.ok
               /\ pc' = IF parsed.ok THEN "scrape" ELSE "done"
               /\ exit_code' = IF parsed.ok THEN exit_code ELSE 1
       ELSE pc' = "scrape" /\ UNCHANGED <<day, warned, exit_code>>
    /\ UNCHANGED <<env_BANZUKE, env_DAY, basho, requests, results_resp,
                   leaders_resp, m_bouts, m_leaders, matches_json, leaders_json,
                   auto_used, resolverVars, boutVars, leaderVars>>

\* if day: day = int(day), or None with a warning when int raises ValueError.
MainConvertDay ==
    /\ pc = "convert"
    /\ IF DayTruthy(day) /\ day.kind = "str"
       THEN LET parsed == ParseInt(day.s)
            IN /\ day' = IF parsed.ok THEN DayInt(parsed.v) ELSE DayNone
               /\ warned' = ~parsed.ok
       ELSE UNCHANGED <<day, warned>>
    /\ pc' = "scrape"
    /\ UNCHANGED <<env_BANZUKE, env_DAY, basho, requests, results_resp,
                   leaders_resp, m_bouts, m_leaders, matches_json, leaders_json,
                   exit_code, auto_used, resolverVars, boutVars, leaderVars>>

\* bouts = scrape_sumo_bouts(basho, day), returning.
MainScrapeBouts ==
    /\ pc = "scrape"
    /\ \E resp \in ResultsResponses :
          /\ ~BoutsRaises(resp)
          /\ results_resp' = resp
          /\ m_bouts' = ExtractBouts(resp.rows)
    /\ requests' = Append(requests, [url |-> "Results.aspx", params |-> ParamsOf(basho, day)])
    /\ pc' = "leaders"
    /\ UNCHANGED <<env_BANZUKE, env_DAY, basho, day, leaders_resp, m_leaders,
                   matches_json, leaders_json, exit_code, warned, auto_used,
                   resolverVars, boutVars, leaderVars>>

\* scrape_sumo_bouts(basho, day) raising: the handler prints the error and
\* calls exit(1).
MainScrapeBoutsRaises ==
    /\ pc = "scrape"
    /\ \E resp \in ResultsResponses :
          /\ BoutsRaises(resp)
          /\ results_resp' = resp
    /\ requests' = Append(requests, [url |-> "Results.aspx", params |-> ParamsOf(basho, day)])
    /\ exit_code' = 1
    /\ pc' = "done"
    /\ UNCHANGED <<env_BANZUKE, env_DAY, basho, day, leaders_resp, m_bouts,
                   m_leaders, matches_json, leaders_json, warned, auto_used,
                   resolverVars, boutVars, leaderVars>>

\* leaders = get_yusho_arasoi_data(), returning.
MainGetLeaders ==
    /\ pc = "leaders"
    /\ \E resp \in LeadersResponses :
          /\ ~LeadersRaises(resp)
          /\ leaders_resp' = resp
          /\ m_leaders' = ExtractLeaders(resp.rows)
    /\ requests' = Append(requests, [url |-> "Banzuke.aspx", params |-> NoParams])
    /\ pc' = "write_matches"
    /\ UNCHANGED <<env_BANZUKE, env_DAY, basho, day, results_resp, m_bouts,
                   matches_json, leaders_json, exit_code, warned, auto_used,
                   resolverVars, boutVars, leaderVars>>

\* get_yusho_arasoi_data() raising: the handler prints the error and calls
\* exit(1).
MainGetLeadersRaises ==
    /\ pc = "leaders"
    /\ \E resp \in LeadersResponses :
          /\ LeadersRaises(resp)
          /\ leaders_resp' = resp
    /\ requests' = Append(requests, [url |-> "Banzuke.aspx", params |-> NoParams])
    /\ exit_code' = 1
    /\ pc' = "done"
    /\ UNCHANGED <<env_BANZUKE, env_DAY, basho, day, results_resp, m_bouts,
                   m_leaders, matches_json, leaders_json, warned, auto_used,
                   resolverVars, boutVars, leaderVars>>

\* json.dump(bouts, f) into matches.json
MainWriteMatches ==
    /\ pc = "write_matches"
    /\ matches_json' = [written |-> TRUE, bouts |-> m_bouts, leaders |-> <<>>]
    /\ pc' = "write_leaders"
    /\ UNCHANGED <<env_BANZUKE, env_DAY, basho, day, requests, results_resp,
                   leaders_resp, m_bouts, m_leaders, leaders_json, exit_code,
                   warned, auto_used, resolverVars, boutVars, leaderVars>>

\* json.dump(leaders, f) into leaders.json, and the normal end of main.
MainWriteLeaders ==
    /\ pc = "write_leaders"
    /\ leaders_json' = [written |-> TRUE, bouts |-> <<>>, leaders |-> m_leaders]
    /\ exit_code' = 0
    /\ pc' = "done"
    /\ UNCHANGED <<env_BANZUKE, env_DAY, basho, day, requests, results_resp,
                   leaders_resp, m_bouts, m_leaders, matches_json, warned,
                   auto_used, resolverVars, boutVars, leaderVars>>

Init == InitMain

Next ==
    \/ MainReadEnv
    \/ MainUseAutomatic
    \/ MainConvertDay
    \/ MainScrapeBouts
    \/ MainScrapeBoutsRaises
    \/ MainGetLeaders
    \/ MainGetLeadersRaises
    \/ MainWriteMatches
    \/ MainWriteLeaders

Spec == Init /\ [][Next]_vars

----------------------------------------------------------------------------
\* The schedule resolver's claims, under SpecResolve.

\* The second Sunday stated from the calendar alone: the one day of the
\* month's first seven that is a Sunday, plus 7 days.
FirstSundayOf(y, m) == CHOOSE d \in 1..7 : Weekday(Date(y, m, d)) = 6
SecondSundayOf(y, m) == Date(y, m, FirstSundayOf(y, m) + 7)

TourneyMonthSet == {1, 3, 5, 7, 9, 11}

Max(S) == CHOOSE x \in S : \A z \in S : z <= x

Clamp(n, lo, hi) == IF n < lo THEN lo ELSE IF n > hi THEN hi ELSE n

\* The day counted from the start date the resolver selected.
ElapsedDay == DaysBetween(now, basho_start) + 1

\* C1 as stated: the returned day is always an integer in 1..15, equal to
\* (today - start) + 1 clamped to [1, 15].
C1_DayClamped ==
    r_pc = "done" =>
        /\ ~r_day.isNone
        /\ r_day.v \in 1..15
        /\ r_day.v = Clamp(ElapsedDay, 1, 15)

\* C1 as amended: today never precedes the selected start date; the returned
\* day is (today - start) + 1 when that is at most 15, and None (no day) when
\* more than 14 days have elapsed since the start date.
C1_DayOrNone ==
    r_pc = "done" =>
        /\ ElapsedDay >= 1
        /\ ElapsedDay <= 15 => r_day = Some(ElapsedDay)
        /\ ElapsedDay > 15 => r_day = NoneInt

C1_Witness == r_pc = "done" /\ ElapsedDay > 15 /\ r_day.isNone

\* C2 as stated: the code is the current year followed by the latest
\* tournament month <= today's month, and the start date is that month's
\* second Sunday.
C2_LatestMonthByMonth ==
    r_pc = "done" =>
        LET m == Max({t \in TourneyMonthSet : t <= now.m})
        IN /\ banzuke = IntToStr(now.y) \o Pad2(m)
           /\ basho_start = SecondSundayOf(now.y, m)

\* C2 as amended: the tournament selected is the latest tournament month of
\* the current year whose start date (its second Sunday, the first Sunday
\* plus 7 days) is on or before today; November of the previous year is
\* selected when no tournament of the current year has started.  The code is
\* the selected year followed by the two-digit month.  Today = 2025-09-15
\* yields "202509" with start date 2025-09-14.
C2_LatestStartedTournament ==
    r_pc = "done" =>
        LET started == {t \in TourneyMonthSet :
                          ToOrdinal(SecondSundayOf(now.y, t)) <= ToOrdinal(now)}
        IN /\ IF started # {}
              THEN /\ banzuke = IntToStr(now.y) \o Pad2(Max(started))
                   /\ basho_start = SecondSundayOf(now.y, Max(started))
              ELSE /\ banzuke = IntToStr(now.y - 1) \o <<"1", "1">>
                   /\ basho_start = SecondSundayOf(now.y - 1, 11)
           /\ now = Date(2025, 9, 15) =>
                 /\ banzuke = <<"2", "0", "2", "5", "0", "9">>
                 /\ basho_start = Date(2025, 9, 14)

C2_Witness ==
    /\ r_pc = "done"
    /\ now.m = 9 /\ ToOrdinal(now) < ToOrdinal(SecondSundayOf(now.y, 9))
    /\ banzuke = IntToStr(now.y) \o <<"0", "7">>

----------------------------------------------------------------------------
\* The bout extractor's claims, under SpecBouts.

\* The rows after the header that have at least 5 cells, in page order.
ValidRows == SelectSeq(DataRows(table), LAMBDA r : Len(r) >= 5)

EastWin(r) == Shiro \in r[1].imgs
EastLoss(r) == Kuro \in r[1].imgs
WestWin(r) == Shiro \in r[5].imgs
WestLoss(r) == Kuro \in r[5].imgs

\* C4 as stated: in every record, winner is null if and only if the technique
\* is null.
C4_WinnerNullIffTechniqueNull ==
    b_pc = "done" =>
        \A i \in 1..Len(bouts) :
            (bouts[i].winner = "None") <=> bouts[i].kimarite.isNone

\* C4 as amended: in every record, winner is null whenever the technique is
\* null, and a winner ('east' or 'west') is given only with a technique; a
\* record with a technique may still have no winner.
C4_TechniqueNullImpliesWinnerNull ==
    b_pc = "done" =>
        \A i \in 1..Len(bouts) :
            /\ bouts[i].kimarite.isNone => bouts[i].winner = "None"
            /\ bouts[i].winner \in {"east", "west", "None"}
            /\ bouts[i].winner # "None" => bouts[i].kimarite.v # <<>>

C4_Witness ==
    /\ b_pc = "done" /\ Len(bouts) = 1 /\ Len(ValidRows) = 1
    /\ ~bouts[1].kimarite.isNone /\ bouts[1].winner = "None"
    /\ Fusensho \in ValidRows[1][1].imgs

\* C5: a row whose technique cell text is empty or '-' gives a record with
\* technique null and winner null, whatever marker images its result cells
\* hold.
C5_UndecidedHasNoWinner ==
    b_pc = "done" =>
        /\ Len(bouts) = Len(ValidRows)
        /\ \A i \in 1..Len(ValidRows) :
              ValidRows[i][3].text \in {<<>>, <<"-">>} =>
                  /\ bouts[i].kimarite = NoneStr
                  /\ bouts[i].winner = "None"

C5_Witness ==
    /\ b_pc = "done" /\ Len(bouts) = 1 /\ Len(ValidRows) = 1
    /\ ValidRows[1][3].text = <<>>
    /\ EastWin(ValidRows[1]) /\ WestLoss(ValidRows[1])
    /\ bouts[1].winner = "None"

\* C6: N rows with at least 5 cells and K rows with fewer, in any order, give
\* exactly N records, the record of each valid row, in the rows' order.
C6_OneRecordPerValidRowInOrder ==
    b_pc = "done" =>
        /\ Len(bouts) = Len(ValidRows)
        /\ \A i \in 1..Len(ValidRows) : bouts[i] = BoutOf(ValidRows[i])

C6_Witness ==
    /\ b_pc = "done" /\ Len(DataRows(table)) = 3
    /\ Len(table[2]) >= 5 /\ Len(table[3]) < 5 /\ Len(table[4]) >= 5
    /\ Len(bouts) = 2
    /\ bouts[1].east.name = <<"b">> /\ bouts[2].east.name = <<"a">>

\* C9 as stated: with a decided technique, winner is 'east' exactly when east
\* holds the win image and west the loss image, 'west' exactly when west holds
\* the win image and east the loss image, and null otherwise, also when both
\* sides hold both images.
C9_WinnerByMarkers ==
    b_pc = "done" =>
        /\ Len(bouts) = Len(ValidRows)
        /\ \A i \in 1..Len(ValidRows) :
              LET r == ValidRows[i]
                  east == EastWin(r) /\ WestLoss(r)
                  west == WestWin(r) /\ EastLoss(r)
              IN ~bouts[i].kimarite.isNone =>
                    /\ (bouts[i].winner = "east") <=> east
                    /\ (bouts[i].winner = "west") <=> west
                    /\ (east /\ west) => bouts[i].winner = "None"
                    /\ (~east /\ ~west) => bouts[i].winner = "None"

\* C9, what the code does instead: with a decided technique, winner is 'east'
\* exactly when east holds the win image and west the loss image (also when
\* both sides hold both images), 'west' exactly when west holds the win image
\* and east the loss image and the test for 'east' failed, and null otherwise.
C9_WinnerByMarkersEastFirst ==
    b_pc = "done" =>
        /\ Len(bouts) = Len(ValidRows)
        /\ \A i \in 1..Len(ValidRows) :
              LET r == ValidRows[i]
                  east == EastWin(r) /\ WestLoss(r)
                  west == WestWin(r) /\ EastLoss(r)
              IN ~bouts[i].kimarite.isNone =>
                    /\ (bouts[i].winner = "east") <=> east
                    /\ (bouts[i].winner = "west") <=> (west /\ ~east)
                    /\ (bouts[i].winner = "None") <=> (~east /\ ~west)

----------------------------------------------------------------------------
\* The leaderboard extractor's claim, under SpecLeaders.

\* The name an entry "name record" starts with.
EntryName(e) == SplitFirst(e, " ")

\* The rows after the header that give an entry: at least 3 cells and a
\* record whose prefix before the first '-' is an integer.
CountedRows ==
    SelectSeq(DataRows(ltable),
              LAMBDA r : Len(r) >= 3 /\ ParseInt(SplitFirst(Strip(r[3]), "-")).ok)

WinsOf(r) == ParseInt(SplitFirst(Strip(r[3]), "-")).v

\* C7: entries are grouped by exact integer win count, the groups are in
\* strictly descending order of win count, and each group's entries are in
\* ascending order of name.
C7_GroupedByWinCount ==
    l_pc = "done" =>
        /\ \A i, j \in 1..Len(leaders) :
              i < j => ParseInt(leaders[i][1]).v > ParseInt(leaders[j][1]).v
        /\ \A a, b \in 1..Len(CountedRows) :
              WinsOf(CountedRows[a]) = WinsOf(CountedRows[b]) =>
                  \E g \in 1..Len(leaders) :
                      /\ \E x \in 1..Len(leaders[g][2]) :
                            leaders[g][2][x] =
                                Strip(CountedRows[a][2]) \o <<" ">> \o Strip(CountedRows[a][3])
                      /\ \E x \in 1..Len(leaders[g][2]) :
                            leaders[g][2][x] =
                                Strip(CountedRows[b][2]) \o <<" ">> \o Strip(CountedRows[b][3])
        /\ \A g \in 1..Len(leaders) :
              \A x, z \in 1..Len(leaders[g][2]) :
                  x < z => StrLE(EntryName(leaders[g][2][x]), EntryName(leaders[g][2][z]))
        /\ ltable = <<LeaderHeaderRow,
                      <<<<"1">>, Hoshoryu, <<"1", "0", "-", "2">>>>,
                      <<<<"1">>, Takakeisho, <<"1", "0", "-", "2">>>>,
                      <<<<"1">>, Onosato, <<"1", "1", "-", "1">>>>>> =>
              leaders = << <<<<"1", "1">>, <<Onosato \o <<" ", "1", "1", "-", "1">>>>>>,
                           <<<<"1", "0">>, <<Hoshoryu \o <<" ", "1", "0", "-", "2">>,
                                             Takakeisho \o <<" ", "1", "0", "-", "2">>>>>> >>

----------------------------------------------------------------------------
\* The claims about a run of main, under Spec.

\* DAY is supplied and int() rejects it.
DayNotCoercible == Truthy(env_DAY) /\ ~ParseInt(env_DAY.v).ok

ResultsFetched == results_resp # NoResponse
LeadersFetched == leaders_resp # NoResponse

\* A fetch that returned a non-success status, or a page without the
\* structure its extractor looks for.
ResultsFailed == ResultsFetched /\ (results_resp.status # 200 \/ ~results_resp.hasTable)
LeadersFailed ==
    LeadersFetched /\ (leaders_resp.status # 200 \/ ~leaders_resp.hasHeader
                          \/ ~leaders_resp.hasTable)

\* C3 as stated: when DAY is not coercible to an integer the run exits with a
\* non-zero status at once: no page is fetched and no file is written.
C3_BadDayFailsFast ==
    DayNotCoercible =>
        /\ requests = <<>>
        /\ ~matches_json.written /\ ~leaders_json.written
        /\ pc = "done" => exit_code # 0

\* C3 as amended: when DAY is not coercible to an integer the run goes on.
\* With BANZUKE supplied too, it prints a warning, drops the day and requests
\* the results page without parameters; with BANZUKE missing, DAY is replaced
\* by the computed day without a warning.  The run ends with a non-zero
\* status only if a fetch or an extraction failed, and otherwise writes both
\* files and ends with status 0.
C3_BadDayWarnsAndContinues ==
    DayNotCoercible =>
        /\ (Truthy(env_BANZUKE) /\ pc \notin {"start", "convert"}) =>
              /\ warned /\ day = DayNone /\ ~auto_used
              /\ Len(requests) >= 1 => requests[1].params = NoParams
        /\ (~Truthy(env_BANZUKE) /\ pc # "start") => auto_used /\ ~warned
        /\ pc = "done" =>
              IF ResultsFailed \/ LeadersFailed
              THEN exit_code = 1
              ELSE exit_code = 0 /\ matches_json.written /\ leaders_json.written

C3_Witness ==
    /\ DayNotCoercible /\ Truthy(env_BANZUKE) /\ warned
    /\ pc = "done" /\ exit_code = 0
    /\ matches_json.written /\ leaders_json.written
    /\ requests[1].params = NoParams

\* C8: a failed fetch or a missing structure ends the run with a non-zero
\* status and no file written; no file is written before both fetches and
\* both extractions have succeeded.
C8_NoWriteUnlessBothSucceeded ==
    /\ (ResultsFailed \/ LeadersFailed) =>
          /\ pc = "done" /\ exit_code = 1
          /\ ~matches_json.written /\ ~leaders_json.written
    /\ (matches_json.written \/ leaders_json.written) =>
          /\ results_resp.status = 200 /\ results_resp.hasTable
          /\ leaders_resp.status = 200 /\ leaders_resp.hasHeader
          /\ leaders_resp.hasTable

C8_Witness ==
    /\ pc = "done" /\ exit_code = 1
    /\ results_resp.status = 200 /\ results_resp.hasTable
    /\ leaders_resp.status = 200 /\ ~leaders_resp.hasHeader
    /\ ~matches_json.written /\ ~leaders_json.written

\* C10 as stated: a tournament code supplied through BANZUKE is the one used
\* for the results query, also when no DAY is supplied.
C10_SuppliedBanzukeUsed ==
    (Truthy(env_BANZUKE) /\ Len(requests) >= 1) =>
        /\ ~requests[1].params.empty
        /\ requests[1].params.b = env_BANZUKE.v

\* C10 as amended: the supplied tournament code and day are the ones used for
\* the results query when both BANZUKE and DAY are supplied and DAY is an
\* integer other than 0; when both are supplied and DAY is no integer or is
\* 0, the query carries no parameters; when either one is missing, both are
\* replaced by the computed tournament and day, which the query carries
\* unless the computed day is None.
C10_BothOrComputed ==
    Len(requests) >= 1 =>
        LET p == requests[1].params
        IN IF Truthy(env_BANZUKE) /\ Truthy(env_DAY)
           THEN /\ ~auto_used
                /\ IF ParseInt(env_DAY.v).ok /\ ParseInt(env_DAY.v).v # 0
                   THEN p = [empty |-> FALSE, b |-> env_BANZUKE.v,
                             d |-> ParseInt(env_DAY.v).v]
                   ELSE p = NoParams
           ELSE /\ auto_used
                /\ IF r_day.isNone THEN p = NoParams
                   ELSE p = [empty |-> FALSE, b |-> banzuke, d |-> r_day.v]

C10_Witness ==
    /\ Len(requests) >= 1
    /\ Truthy(env_BANZUKE) /\ env_DAY = NoneStr
    /\ ~requests[1].params.empty
    /\ requests[1].params.b = <<"2", "0", "2", "5", "0", "9">>

====
